---- MODULE Spec2Model ----
(***************************************************************************)
(* Model of package config of lava: Parse / ParseFile, Config.validate,    *)
(* the Severity and OutputFormat codecs, and the finding filters that      *)
(* consume ReportConfig (minimum severity and exclusion list).             *)
(*                                                                         *)
(* Strings are sequences of one-character strings, so that case folding,   *)
(* prefixes and the scanning done by the version check are computed and    *)
(* not assumed.                                                            *)
(***************************************************************************)
EXTENDS Integers, Sequences, FiniteSets, TLC

VARIABLES
    doc,        \* the document behind the io.Reader handed to Parse
    fileOK,     \* whether os.Open(path) succeeds in ParseFile
    pc,         \* position of the program: "start", or the call that returned
    cfg,        \* Parse's local "var cfg Config" as it stands when Parse returns
    ret,        \* the (Config, error) pair handed back to the caller
    tok,        \* codec inputs: the severity and format tokens of a yaml node
    dec,        \* codec outputs: what parseSeverity / parseOutputFormat returned
    finding,    \* a finding produced by the check runner
    exclusions, \* ReportConfig.Exclusions
    verdict     \* what the filters decided for the finding

vars == <<doc, fileOK, pc, cfg, ret, tok, dec, finding, exclusions, verdict>>

----------------------------------------------------------------------------
(* Bounds of the model. *)

MaxTargets == 2

MaxExclusions == 2

----------------------------------------------------------------------------
(* Characters and strings. *)

Upper == <<"A","B","C","D","E","F","G","H","I","J","K","L","M",
           "N","O","P","Q","R","S","T","U","V","W","X","Y","Z">>

Lower == <<"a","b","c","d","e","f","g","h","i","j","k","l","m",
           "n","o","p","q","r","s","t","u","v","w","x","y","z">>

Digits == {"0","1","2","3","4","5","6","7","8","9"}

Range(s) == { s[i] : i \in DOMAIN s }

Drop(s, n) == SubSeq(s, n + 1, Len(s))

IsDigit(c) == c \in Digits

\* unicode.ToLower on one character (the ASCII letters are the only ones
\* whose lower case is a letter of an enum name).
ToLowerChar(c) ==
    IF \E i \in DOMAIN Upper : Upper[i] = c
    THEN Lower[CHOOSE i \in DOMAIN Upper : Upper[i] = c]
    ELSE c

\* strings.ToLower
ToLower(s) == [ i \in DOMAIN s |-> ToLowerChar(s[i]) ]

ToUpperChar(c) ==
    IF \E i \in DOMAIN Lower : Lower[i] = c
    THEN Upper[CHOOSE i \in DOMAIN Lower : Lower[i] = c]
    ELSE c

----------------------------------------------------------------------------
(* Errors.  kind is the sentinel errors.Is finds, detail the text appended  *)
(* after it by fmt.Errorf("%w: %v", ...), wrap the prefix Parse or          *)
(* ParseFile puts in front.                                                 *)

NoError == [kind |-> "nil", detail |-> <<>>, wrap |-> ""]

Sentinel(k) == [kind |-> k, detail |-> <<>>, wrap |-> ""]

ErrInvalidLavaVersion == Sentinel("ErrInvalidLavaVersion")

ErrNoTargets == Sentinel("ErrNoTargets")

ErrNoTargetIdentifier == Sentinel("ErrNoTargetIdentifier")

ErrInvalidSeverity == Sentinel("ErrInvalidSeverity")

ErrInvalidOutputFormat == Sentinel("ErrInvalidOutputFormat")

\* fmt.Errorf("%w: %v", sentinel, text)
ErrorfDetail(sentinel, text) == [sentinel EXCEPT !.detail = text]

\* fmt.Errorf("<prefix>: %w", err)
ErrorfWrap(prefix, err) == [err EXCEPT !.wrap = prefix]

----------------------------------------------------------------------------
(* semver.IsValid of golang.org/x/mod/semver, as called by validate.        *)

ParseFail == [ok |-> FALSE, rest |-> <<>>]

\* number of leading digits of v
DigitRun(v) ==
    LET runs == { i \in 0..Len(v) : \A j \in 1..i : IsDigit(v[j]) }
    IN  CHOOSE i \in runs : \A k \in runs : k <= i

parseInt(v) ==
    IF v = <<>> THEN ParseFail
    ELSE IF ~IsDigit(v[1]) THEN ParseFail
    ELSE LET i == DigitRun(v)
         IN  IF v[1] = "0" /\ i # 1 THEN ParseFail
             ELSE [ok |-> TRUE, rest |-> Drop(v, i)]

isIdentChar(c) ==
    \/ c \in Range(Upper)
    \/ c \in Range(Lower)
    \/ IsDigit(c)
    \/ c = "-"

isBadNum(v) ==
    LET i == DigitRun(v)
    IN  i = Len(v) /\ i > 1 /\ v[1] = "0"

\* the loop of parsePrerelease; i and start are Go's 0-based indexes
RECURSIVE prereleaseLoop(_, _, _)
prereleaseLoop(v, i, start) ==
    IF i < Len(v) /\ v[i + 1] # "+"
    THEN IF ~isIdentChar(v[i + 1]) /\ v[i + 1] # "." THEN ParseFail
         ELSE IF v[i + 1] = "."
              THEN IF start = i \/ isBadNum(SubSeq(v, start + 1, i))
                   THEN ParseFail
                   ELSE prereleaseLoop(v, i + 1, i + 1)
              ELSE prereleaseLoop(v, i + 1, start)
    ELSE IF start = i \/ isBadNum(SubSeq(v, start + 1, i))
         THEN ParseFail
         ELSE [ok |-> TRUE, rest |-> Drop(v, i)]

parsePrerelease(v) ==
    IF v = <<>> THEN ParseFail
    ELSE IF v[1] # "-" THEN ParseFail
    ELSE prereleaseLoop(v, 1, 1)

\* the loop of parseBuild
RECURSIVE buildLoop(_, _, _)
buildLoop(v, i, start) ==
    IF i < Len(v)
    THEN IF ~isIdentChar(v[i + 1]) /\ v[i + 1] # "." THEN ParseFail
         ELSE IF v[i + 1] = "."
              THEN IF start = i THEN ParseFail
                   ELSE buildLoop(v, i + 1, i + 1)
              ELSE buildLoop(v, i + 1, start)
    ELSE IF start = i THEN ParseFail
         ELSE [ok |-> TRUE, rest |-> Drop(v, i)]

parseBuild(v) ==
    IF v = <<>> THEN ParseFail
    ELSE IF v[1] # "+" THEN ParseFail
    ELSE buildLoop(v, 1, 1)

\* what follows vMAJOR.MINOR.PATCH: [-PRERELEASE][+BUILD] and nothing else
parseSuffix(v) ==
    LET p == IF v # <<>> /\ v[1] = "-" THEN parsePrerelease(v)
             ELSE [ok |-> TRUE, rest |-> v]
        b == IF p.ok /\ p.rest # <<>> /\ p.rest[1] = "+" THEN parseBuild(p.rest)
             ELSE p
    IN  p.ok /\ b.ok /\ b.rest = <<>>

IsValid(v) ==
    IF v = <<>> THEN FALSE
    ELSE IF v[1] # "v" THEN FALSE
    ELSE LET major == parseInt(Drop(v, 1))
         IN  IF ~major.ok THEN FALSE
             ELSE IF major.rest = <<>> THEN TRUE
             ELSE IF major.rest[1] # "." THEN FALSE
             ELSE LET minor == parseInt(Drop(major.rest, 1))
                  IN  IF ~minor.ok THEN FALSE
                      ELSE IF minor.rest = <<>> THEN TRUE
                      ELSE IF minor.rest[1] # "." THEN FALSE
                      ELSE LET patch == parseInt(Drop(minor.rest, 1))
                           IN  IF ~patch.ok THEN FALSE
                               ELSE parseSuffix(patch.rest)

----------------------------------------------------------------------------
(* Enum codecs. *)

SeverityCritical == 1

\* mutant: High and Critical exchanged (with SeverityCritical still 1, High
\* is no longer the zero value)
SeverityHigh_notZero == SeverityCritical + 1

SeverityHigh == 0

\* mutant: Medium ranked above Critical
SeverityMedium_aboveCritical == SeverityCritical + 1

SeverityMedium == -1

SeverityLow == -2

SeverityInfo == -3

OutputFormatJSON == 0

S_critical == <<"c","r","i","t","i","c","a","l">>

S_high == <<"h","i","g","h">>

S_medium == <<"m","e","d","i","u","m">>

S_low == <<"l","o","w">>

S_info == <<"i","n","f","o">>

F_json == <<"j","s","o","n">>

severityNames ==
    (S_critical :> SeverityCritical) @@ (S_high :> SeverityHigh) @@
    (S_medium :> SeverityMedium) @@ (S_low :> SeverityLow) @@
    (S_info :> SeverityInfo)

\* mutant: the name is lower-cased before the lookup
parseSeverity_caseInsensitive(severity) ==
    IF ToLower(severity) \in DOMAIN severityNames
    THEN [val |-> severityNames[ToLower(severity)], err |-> NoError]
    ELSE [val |-> 0, err |-> ErrorfDetail(ErrInvalidSeverity, severity)]

parseSeverity(severity) ==
    IF severity \in DOMAIN severityNames
    THEN [val |-> severityNames[severity], err |-> NoError]
    ELSE [val |-> 0, err |-> ErrorfDetail(ErrInvalidSeverity, severity)]

\* (*Severity).UnmarshalYAML: s is the value the receiver holds before the call
UnmarshalSeverity(s, value) ==
    LET r == parseSeverity(value)
    IN  IF r.err # NoError THEN [val |-> s, err |-> r.err]
        ELSE [val |-> r.val, err |-> NoError]

outputFormatNames == (F_json :> OutputFormatJSON)

\* mutant: the name is looked up as written
parseOutputFormat_caseSensitive(format) ==
    IF format \in DOMAIN outputFormatNames
    THEN [val |-> outputFormatNames[format], err |-> NoError]
    ELSE [val |-> 0, err |-> ErrorfDetail(ErrInvalidOutputFormat, format)]

parseOutputFormat(format) ==
    IF ToLower(format) \in DOMAIN outputFormatNames
    THEN [val |-> outputFormatNames[ToLower(format)], err |-> NoError]
    ELSE [val |-> 0, err |-> ErrorfDetail(ErrInvalidOutputFormat, format)]

\* (*OutputFormat).UnmarshalYAML
UnmarshalOutputFormat(f, value) ==
    LET r == parseOutputFormat(value)
    IN  IF r.err # NoError THEN [val |-> f, err |-> r.err]
        ELSE [val |-> r.val, err |-> NoError]

----------------------------------------------------------------------------
(* Config and the documents it is decoded from. *)

\* Config{}: the zero value
ZeroConfig ==
    [LavaVersion |-> <<>>,
     ReportConfig |-> [Severity |-> 0, Format |-> 0],
     Targets |-> <<>>]

\* Target{Identifier: id}
Target(id) == [Identifier |-> id]

\* A document is what the yaml parser hands to the decoder: nothing at all
\* ("empty"), a syntax error ("malformed"), or a mapping whose keys are met
\* in the order they are written.  order lists the top-level keys present,
\* reportOrder the keys present under "report"; a key that is absent has
\* no node, and its value below is the empty placeholder.
EmptyDoc(k) ==
    [kind |-> k, order |-> <<>>, lava |-> <<>>, reportOrder |-> <<>>,
     severity |-> <<>>, format |-> <<>>, targets |-> <<>>]

Has(keys, k) == \E i \in DOMAIN keys : keys[i] = k

\* the decoder's walk over the "report" mapping, in document order; a
\* failing UnmarshalYAML ends the decode at once
RECURSIVE decodeReport(_, _, _)
decodeReport(rc, keys, d) ==
    IF keys = <<>> THEN [val |-> rc, err |-> NoError]
    ELSE IF Head(keys) = "severity"
         THEN LET r == UnmarshalSeverity(rc.Severity, d.severity)
              IN  IF r.err # NoError THEN [val |-> rc, err |-> r.err]
                  ELSE decodeReport([rc EXCEPT !.Severity = r.val], Tail(keys), d)
         ELSE LET r == UnmarshalOutputFormat(rc.Format, d.format)
              IN  IF r.err # NoError THEN [val |-> rc, err |-> r.err]
                  ELSE decodeReport([rc EXCEPT !.Format = r.val], Tail(keys), d)

\* the decoder's walk over the top-level mapping, in document order
RECURSIVE decodeMapping(_, _, _)
decodeMapping(c, keys, d) ==
    IF keys = <<>> THEN [val |-> c, err |-> NoError]
    ELSE IF Head(keys) = "lava"
         THEN decodeMapping([c EXCEPT !.LavaVersion = d.lava], Tail(keys), d)
    ELSE IF Head(keys) = "targets"
         THEN decodeMapping([c EXCEPT !.Targets = d.targets], Tail(keys), d)
    ELSE LET r == decodeReport(c.ReportConfig, d.reportOrder, d)
         IN  IF r.err # NoError
             THEN [val |-> [c EXCEPT !.ReportConfig = r.val], err |-> r.err]
             ELSE decodeMapping([c EXCEPT !.ReportConfig = r.val], Tail(keys), d)

\* yaml.NewDecoder(r).Decode(&cfg), cfg being the zero Config
Decode(d) ==
    IF d.kind = "empty" THEN [val |-> ZeroConfig, err |-> Sentinel("io.EOF")]
    ELSE IF d.kind = "malformed"
         THEN [val |-> ZeroConfig, err |-> Sentinel("yaml: syntax error")]
    ELSE decodeMapping(ZeroConfig, d.order, d)

\* the loop of validate over c.Targets, from target i on
\* mutant: the loop returns after looking at one target
targetsLoop_firstOnly(targets, i) ==
    IF i > Len(targets) THEN NoError
    ELSE IF targets[i].Identifier = <<>> THEN ErrNoTargetIdentifier
    ELSE NoError

RECURSIVE targetsLoop(_, _)
targetsLoop(targets, i) ==
    IF i > Len(targets) THEN NoError
    ELSE IF targets[i].Identifier = <<>> THEN ErrNoTargetIdentifier
    ELSE targetsLoop(targets, i + 1)

\* mutant: the target checks come before the version check
validate_targetsFirst(c) ==
    IF Len(c.Targets) = 0 THEN ErrNoTargets
    ELSE IF targetsLoop(c.Targets, 1) # NoError THEN targetsLoop(c.Targets, 1)
    ELSE IF ~IsValid(c.LavaVersion) THEN ErrInvalidLavaVersion
    ELSE NoError

\* mutant: the empty target list is not rejected
validate_noTargetsCheck(c) ==
    IF ~IsValid(c.LavaVersion) THEN ErrInvalidLavaVersion
    ELSE targetsLoop(c.Targets, 1)

\* mutant: the identifiers are not looked at
validate_noIdentifierCheck(c) ==
    IF ~IsValid(c.LavaVersion) THEN ErrInvalidLavaVersion
    ELSE IF Len(c.Targets) = 0 THEN ErrNoTargets
    ELSE NoError

validate(c) ==
    IF ~IsValid(c.LavaVersion) THEN ErrInvalidLavaVersion
    ELSE IF Len(c.Targets) = 0 THEN ErrNoTargets
    ELSE targetsLoop(c.Targets, 1)

\* mutant: the decoded cfg is returned along with a validation error
Parse_returnsDecoded(d) ==
    LET r == Decode(d)
    IN  IF r.err # NoError
        THEN [local |-> r.val, cfg |-> ZeroConfig,
              err |-> ErrorfWrap("decode config", r.err)]
        ELSE IF validate(r.val) # NoError
        THEN [local |-> r.val, cfg |-> r.val,
              err |-> ErrorfWrap("validate config", validate(r.val))]
        ELSE [local |-> r.val, cfg |-> r.val, err |-> NoError]

\* Parse: local is the function's cfg variable, cfg and err what it returns
Parse(d) ==
    LET r == Decode(d)
    IN  IF r.err # NoError
        THEN [local |-> r.val, cfg |-> ZeroConfig,
              err |-> ErrorfWrap("decode config", r.err)]
        ELSE IF validate(r.val) # NoError
        THEN [local |-> r.val, cfg |-> ZeroConfig,
              err |-> ErrorfWrap("validate config", validate(r.val))]
        ELSE [local |-> r.val, cfg |-> r.val, err |-> NoError]

ParseFile(opened, d) ==
    IF ~opened
    THEN [local |-> ZeroConfig, cfg |-> ZeroConfig,
          err |-> ErrorfWrap("open config file", Sentinel("fs.PathError"))]
    ELSE Parse(d)

----------------------------------------------------------------------------
(* The documents the model feeds to Parse. *)

V_1_0_0 == <<"v","1",".","0",".","0">>

LavaVersions ==
    { V_1_0_0,
      <<"1",".","0",".","0">>,
      <<"v","1">>,
      <<"v","1",".","0">>,
      <<"v","1",".","0",".","0","-","r","c",".","1">>,
      <<"v","1",".","0",".","0","+","b">>,
      <<"v","0","1",".","0",".","0">>,
      <<"v","1",".","0",".","0","-","0","1">>,
      <<"v","1",".","0","-","r","c">>,
      <<"l","a","v","a">>,
      <<>> }

DocSeverities == { S_critical, S_high, <<"C","r","i","t","i","c","a","l">> }

DocFormats == { F_json, <<"J","S","O","N">>, <<"x","m","l">> }

Identifiers == { <<>>, <<"e","x","a","m","p","l","e",".","c","o","m">> }

TargetLists ==
    UNION { [1..n -> { Target(id) : id \in Identifiers }] : n \in 0..MaxTargets }

\* sequences over keys in which no key occurs twice
Orders(keys) ==
    UNION { { o \in [1..n -> keys] : \A i, j \in 1..n : i # j => o[i] # o[j] }
            : n \in 0..Cardinality(keys) }

Docs ==
    { EmptyDoc("empty"), EmptyDoc("malformed") } \cup
    { d \in [kind : {"mapping"},
             order : Orders({"lava", "report", "targets"}),
             lava : LavaVersions,
             reportOrder : Orders({"severity", "format"}),
             severity : DocSeverities \cup {<<>>},
             format : DocFormats \cup {<<>>},
             targets : TargetLists] :
        /\ Has(d.order, "lava") \/ d.lava = <<>>
        /\ Has(d.order, "targets") \/ d.targets = <<>>
        /\ Has(d.order, "report") \/ d.reportOrder = <<>>
        /\ Has(d.reportOrder, "severity") <=> d.severity # <<>>
        /\ Has(d.reportOrder, "format") <=> d.format # <<>> }

Idle == "idle"

NoReturn == [cfg |-> ZeroConfig, err |-> NoError]

Init ==
    /\ doc \in Docs
    /\ fileOK \in BOOLEAN
    /\ pc = "start"
    /\ cfg = ZeroConfig
    /\ ret = NoReturn
    /\ tok = Idle
    /\ dec = Idle
    /\ finding = Idle
    /\ exclusions = Idle
    /\ verdict = Idle

\* a caller hands the document to Parse
CallParse ==
    /\ pc = "start"
    /\ LET r == Parse(doc)
       IN  /\ cfg' = r.local
           /\ ret' = [cfg |-> r.cfg, err |-> r.err]
    /\ pc' = "Parse"
    /\ UNCHANGED <<doc, fileOK, tok, dec, finding, exclusions, verdict>>

\* a caller hands the path of the document to ParseFile
CallParseFile ==
    /\ pc = "start"
    /\ LET r == ParseFile(fileOK, doc)
       IN  /\ cfg' = r.local
           /\ ret' = [cfg |-> r.cfg, err |-> r.err]
    /\ pc' = "ParseFile"
    /\ UNCHANGED <<doc, fileOK, tok, dec, finding, exclusions, verdict>>

Next == CallParse \/ CallParseFile

Spec == Init /\ [][Next]_vars

----------------------------------------------------------------------------
(* The codecs on their own: one yaml scalar handed to UnmarshalYAML, and    *)
(* the severity filter fed with the minimum severity that results.          *)

\* n with one letter in upper case, cut short, all in upper case, or extended
Near(n) ==
    { [n EXCEPT ![i] = ToUpperChar(n[i])] : i \in DOMAIN n } \cup
    { SubSeq(n, 1, k) : k \in 0..Len(n) } \cup
    { [i \in DOMAIN n |-> ToUpperChar(n[i])], n \o <<"s">>, <<" ">> \o n }

\* n with any of its letters in upper case
AllCase(n) ==
    { [i \in DOMAIN n |-> IF i \in U THEN ToUpperChar(n[i]) ELSE n[i]]
      : U \in SUBSET DOMAIN n }

Tokens ==
    UNION { Near(n) : n \in { S_critical, S_high, S_medium, S_low, S_info, F_json } }
    \cup AllCase(F_json)
    \cup { <<"x","m","l">>, <<"X","M","L">>, <<"J","S","O","N","5">> }

Severities ==
    { SeverityCritical, SeverityHigh, SeverityMedium, SeverityLow, SeverityInfo }

Finding(t, r, f, s) == [Target |-> t, Resource |-> r, Fingerprint |-> f, Severity |-> s]

NotDecoded == [kind |-> "none", val |-> 0, err |-> NoError]

\* no finding has been put to the severity filter yet
NotFiltered == [set |-> FALSE, min |-> 0, reportable |-> FALSE]

\* Severity Filter: whether a finding of severity f clears the minimum min
Reportable(f, min) == f >= min

InitCodec ==
    /\ tok \in Tokens
    /\ dec = NotDecoded
    /\ finding \in { Finding(<<>>, <<>>, <<>>, s) : s \in Severities }
    /\ verdict = NotFiltered
    /\ exclusions = Idle
    /\ doc = Idle
    /\ fileOK = Idle
    /\ pc = Idle
    /\ cfg = ZeroConfig
    /\ ret = NoReturn

\* the decoder meets the scalar under report.severity
DecodeSeverity ==
    /\ dec = NotDecoded
    /\ ~verdict.set
    /\ LET r == UnmarshalSeverity(cfg.ReportConfig.Severity, tok)
       IN  dec' = [kind |-> "severity", val |-> r.val, err |-> r.err]
    /\ UNCHANGED <<doc, fileOK, pc, cfg, ret, tok, finding, exclusions, verdict>>

\* the decoder meets the scalar under report.format
DecodeOutputFormat ==
    /\ dec = NotDecoded
    /\ ~verdict.set
    /\ LET r == UnmarshalOutputFormat(cfg.ReportConfig.Format, tok)
       IN  dec' = [kind |-> "format", val |-> r.val, err |-> r.err]
    /\ UNCHANGED <<doc, fileOK, pc, cfg, ret, tok, finding, exclusions, verdict>>

\* the finding is put to the severity filter; the minimum is the decoded
\* severity, or the one cfg holds when the document gave none
SeverityFilter ==
    /\ ~verdict.set
    /\ \/ dec = NotDecoded
       \/ dec.kind = "severity" /\ dec.err = NoError
    /\ LET min == IF dec = NotDecoded THEN cfg.ReportConfig.Severity ELSE dec.val
       IN  verdict' = [set |-> TRUE, min |-> min, reportable |-> Reportable(finding.Severity, min)]
    /\ UNCHANGED <<doc, fileOK, pc, cfg, ret, tok, dec, finding, exclusions>>

NextCodec == DecodeSeverity \/ DecodeOutputFormat \/ SeverityFilter

SpecCodec == InitCodec /\ [][NextCodec]_vars

----------------------------------------------------------------------------
(* The exclusion matcher. *)

Exclusion(t, r, f, s, d) ==
    [Target |-> t, Resource |-> r, Fingerprint |-> f, Summary |-> s, Description |-> d]

TargetNames == { <<>>, <<"a">>, <<"A">> }

ResourceNames == { <<>>, <<"r">> }

Fingerprints == { <<>>, <<"f">> }

Summaries == { <<>>, <<"s">> }

Exclusions ==
    { Exclusion(t, r, f, s, <<>>) :
        t \in TargetNames, r \in ResourceNames, f \in Fingerprints, s \in Summaries }

ExclusionLists == UNION { [1..n -> Exclusions] : n \in 0..MaxExclusions }

\* mutant: names are compared without regard to case
ruleMatches_caseInsensitive(rule, f) ==
    /\ rule.Target = <<>> \/ ToLower(rule.Target) = ToLower(f.Target)
    /\ rule.Resource = <<>> \/ ToLower(rule.Resource) = ToLower(f.Resource)
    /\ rule.Fingerprint = <<>> \/ ToLower(rule.Fingerprint) = ToLower(f.Fingerprint)

\* a rule matches a finding when each field it sets equals the finding's
ruleMatches(rule, f) ==
    /\ rule.Target = <<>> \/ rule.Target = f.Target
    /\ rule.Resource = <<>> \/ rule.Resource = f.Resource
    /\ rule.Fingerprint = <<>> \/ rule.Fingerprint = f.Fingerprint

\* the walk over the exclusion list from rule i on: the index of the first
\* rule that matches, 0 when none does
RECURSIVE firstMatch(_, _, _)
firstMatch(rules, f, i) ==
    IF i > Len(rules) THEN 0
    ELSE IF ruleMatches(rules[i], f) THEN i
    ELSE firstMatch(rules, f, i + 1)

\* Exclusion Matcher: suppressed or not, and the rule attributed
isExcluded(f, rules) ==
    [suppressed |-> firstMatch(rules, f, 1) # 0, rule |-> firstMatch(rules, f, 1)]

\* no finding has been put to the exclusion matcher yet
NotMatched == [set |-> FALSE, suppressed |-> FALSE, rule |-> 0]

InitExclusion ==
    /\ exclusions \in ExclusionLists
    /\ finding \in { Finding(t, r, f, SeverityHigh) :
                       t \in TargetNames, r \in ResourceNames, f \in Fingerprints }
    /\ verdict = NotMatched
    /\ tok = Idle
    /\ dec = Idle
    /\ doc = Idle
    /\ fileOK = Idle
    /\ pc = Idle
    /\ cfg = ZeroConfig
    /\ ret = NoReturn

\* the finding is put to the exclusion matcher
ExclusionMatcher ==
    /\ ~verdict.set
    /\ LET r == isExcluded(finding, exclusions)
       IN  verdict' = [set |-> TRUE, suppressed |-> r.suppressed, rule |-> r.rule]
    /\ UNCHANGED <<doc, fileOK, pc, cfg, ret, tok, dec, finding, exclusions>>

NextExclusion == ExclusionMatcher

SpecExclusion == InitExclusion /\ [][NextExclusion]_vars

----------------------------------------------------------------------------
(* Vocabulary of the properties, stated without the functions above.        *)

IdentChars == Range(Upper) \cup Range(Lower) \cup Digits \cup {"-"}

\* position of the first c in s, 0 when there is none
IndexOf(s, c) ==
    IF \E i \in DOMAIN s : s[i] = c
    THEN CHOOSE i \in DOMAIN s : s[i] = c /\ \A j \in 1..(i - 1) : s[j] # c
    ELSE 0

\* the pieces of s between occurrences of sep
RECURSIVE Split(_, _)
Split(s, sep) ==
    IF IndexOf(s, sep) = 0 THEN <<s>>
    ELSE <<SubSeq(s, 1, IndexOf(s, sep) - 1)>> \o Split(Drop(s, IndexOf(s, sep)), sep)

AllDigits(s) == \A i \in DOMAIN s : s[i] \in Digits

\* a numeric identifier: digits, no leading zero
NumericId(s) == s # <<>> /\ AllDigits(s) /\ (Len(s) > 1 => s[1] # "0")

\* a build identifier: non-empty, [0-9A-Za-z-]
BuildId(s) == s # <<>> /\ \A i \in DOMAIN s : s[i] \in IdentChars

\* a pre-release identifier: a build identifier that, if numeric, has no leading zero
PrereleaseId(s) == BuildId(s) /\ (AllDigits(s) => NumericId(s))

AllOf(parts, P(_)) == \A i \in DOMAIN parts : P(parts[i])

\* MAJOR.MINOR.PATCH[-PRERELEASE][+BUILD] of Semantic Versioning 2.0.0
SemVerBody(b) ==
    LET plus  == IndexOf(b, "+")
        main  == IF plus = 0 THEN b ELSE SubSeq(b, 1, plus - 1)
        dash  == IndexOf(main, "-")
        core  == IF dash = 0 THEN main ELSE SubSeq(main, 1, dash - 1)
    IN  /\ Len(Split(core, ".")) = 3
        /\ AllOf(Split(core, "."), NumericId)
        /\ dash # 0 => AllOf(Split(Drop(main, dash), "."), PrereleaseId)
        /\ plus # 0 => AllOf(Split(Drop(b, plus), "."), BuildId)

\* semantic-version text, a leading "v" accepted
SemVer2(s) == SemVerBody(IF s # <<>> /\ s[1] = "v" THEN Tail(s) ELSE s)

\* the dialect of Go's semver package: the "v" is required, and vMAJOR and
\* vMAJOR.MINOR are accepted as shorthands
GoSemver(s) ==
    /\ s # <<>>
    /\ s[1] = "v"
    /\ \/ SemVerBody(Tail(s))
       \/ /\ Len(Split(Tail(s), ".")) \in {1, 2}
          /\ AllOf(Split(Tail(s), "."), NumericId)

SeverityNameSet == { S_critical, S_high, S_medium, S_low, S_info }

CaseVariantOfJson(t) ==
    /\ Len(t) = 4
    /\ t[1] \in {"j", "J"}
    /\ t[2] \in {"s", "S"}
    /\ t[3] \in {"o", "O"}
    /\ t[4] \in {"n", "N"}

Returned == pc \in {"Parse", "ParseFile"}

\* Parse got as far as validate: cfg is the decoded Configuration
Validated == Returned /\ ret.err.wrap \notin {"decode config", "open config file"}

SomeEmptyIdentifier(targets) == \E i \in DOMAIN targets : targets[i].Identifier = <<>>

\* the three conditions a valid Configuration meets, for a reading V of
\* "valid version"
Conditions(c, V(_)) ==
    /\ V(c.LavaVersion)
    /\ Len(c.Targets) > 0
    /\ ~SomeEmptyIdentifier(c.Targets)

ParseOkIff(V(_)) ==
    Validated =>
        /\ (ret.err = NoError) <=> Conditions(cfg, V)
        /\ ret.err = NoError =>
              /\ ret.cfg = cfg
              /\ ret.cfg.LavaVersion = doc.lava
              /\ ret.cfg.Targets = doc.targets

----------------------------------------------------------------------------
(* Parse and validate. *)

BadSeverity == Has(doc.reportOrder, "severity") /\ doc.severity \notin SeverityNameSet

BadFormat == Has(doc.reportOrder, "format") /\ ~CaseVariantOfJson(doc.format)

FirstBadToken ==
    IF doc.kind # "mapping" \/ ~Has(doc.order, "report") THEN "none"
    ELSE IF BadSeverity /\ BadFormat
         THEN doc.reportOrder[1]
    ELSE IF BadSeverity THEN "severity"
    ELSE IF BadFormat THEN "format"
    ELSE "none"

\* The error of the first failing stage, for a reading V of "valid version".
StageError(V(_)) ==
    IF doc.kind = "empty"
    THEN [kind |-> "io.EOF", detail |-> <<>>, wrap |-> "decode config"]
    ELSE IF doc.kind = "malformed"
    THEN [kind |-> "yaml: syntax error", detail |-> <<>>, wrap |-> "decode config"]
    ELSE IF FirstBadToken = "severity"
    THEN [kind |-> "ErrInvalidSeverity", detail |-> doc.severity, wrap |-> "decode config"]
    ELSE IF FirstBadToken = "format"
    THEN [kind |-> "ErrInvalidOutputFormat", detail |-> doc.format, wrap |-> "decode config"]
    ELSE IF ~V(doc.lava)
    THEN [kind |-> "ErrInvalidLavaVersion", detail |-> <<>>, wrap |-> "validate config"]
    ELSE IF doc.targets = <<>>
    THEN [kind |-> "ErrNoTargets", detail |-> <<>>, wrap |-> "validate config"]
    ELSE IF SomeEmptyIdentifier(doc.targets)
    THEN [kind |-> "ErrNoTargetIdentifier", detail |-> <<>>, wrap |-> "validate config"]
    ELSE [kind |-> "nil", detail |-> <<>>, wrap |-> ""]

C3_NoTargetsAfterVersion ==
    (Validated /\ Len(cfg.Targets) = 0 /\ GoSemver(cfg.LavaVersion))
        => ret.err = [kind |-> "ErrNoTargets", detail |-> <<>>, wrap |-> "validate config"]

\* C3 (as claimed): a decoded Configuration whose target list is empty
\* fails validation with NoTargets, whatever its other fields hold, the
\* lava version included.
C3_NoTargetsAlways ==
    (Validated /\ Len(cfg.Targets) = 0) => ret.err.kind = "ErrNoTargets"

\* validate answered NoTargets for a Configuration with a non-default
\* severity and a valid version.
C3_Witness ==
    /\ Validated
    /\ Len(cfg.Targets) = 0
    /\ cfg.ReportConfig.Severity = SeverityCritical
    /\ ret.err.kind = "ErrNoTargets"

\* C4 (as amended): a decoded Configuration whose lava version passes the
\* version check and in which some target, at any position, has an empty
\* identifier fails validation with NoTargetIdentifier; the error is the
\* bare sentinel and names no target.
C4_NoTargetIdentifierAfterVersion ==
    (Validated /\ GoSemver(cfg.LavaVersion) /\ SomeEmptyIdentifier(cfg.Targets))
        => ret.err = [kind |-> "ErrNoTargetIdentifier", detail |-> <<>>,
                      wrap |-> "validate config"]

\* C4 (as claimed): a decoded Configuration in which some target has an
\* empty identifier fails validation with NoTargetIdentifier, and the
\* failure says which target it is.
C4_NoTargetIdentifierAlways ==
    (Validated /\ SomeEmptyIdentifier(cfg.Targets))
        => /\ ret.err.kind = "ErrNoTargetIdentifier"
           /\ ret.err.detail # <<>>

\* validate answered NoTargetIdentifier for a list whose first target has
\* an identifier and whose last has none.
C4_Witness ==
    /\ Validated
    /\ Len(cfg.Targets) = MaxTargets
    /\ cfg.Targets[1].Identifier # <<>>
    /\ cfg.Targets[MaxTargets].Identifier = <<>>
    /\ ret.err.kind = "ErrNoTargetIdentifier"

\* C5: whenever Parse or ParseFile returns an error, the Configuration
\* returned with it is the zero value.
C5_ZeroConfigOnError ==
    (Returned /\ ret.err # NoError)
        => ret.cfg = [LavaVersion |-> <<>>,
                      ReportConfig |-> [Severity |-> 0, Format |-> 0],
                      Targets |-> <<>>]

\* ParseFile failed in validate with a decoded Configuration that is far
\* from zero, and returned none of it.
C5_Witness ==
    /\ pc = "ParseFile"
    /\ ret.err.kind = "ErrNoTargetIdentifier"
    /\ cfg.LavaVersion = V_1_0_0
    /\ cfg.ReportConfig.Severity = SeverityCritical
    /\ Len(cfg.Targets) = MaxTargets
    /\ ret.cfg.LavaVersion = <<>>

\* the document d with severity: high written under "report"
WithSeverityHigh(d) ==
    [d EXCEPT !.severity = S_high,
              !.reportOrder = Append(@, "severity"),
              !.order = IF Has(@, "report") THEN @ ELSE Append(@, "report")]

\* C6: a document that omits report.severity and passes validation yields
\* High (rank 0) as minimum severity, and the very Configuration the same
\* document yields with severity "high" written out; an omitted
\* report.format yields the JSON format.
C6_DefaultSeverityHigh ==
    (pc = "Parse" /\ ret.err = NoError) =>
        /\ ~Has(doc.reportOrder, "severity") =>
              /\ ret.cfg.ReportConfig.Severity = SeverityHigh
              /\ SeverityHigh = 0
              /\ Parse(WithSeverityHigh(doc)).err = NoError
              /\ Parse(WithSeverityHigh(doc)).cfg = ret.cfg
        /\ ~Has(doc.reportOrder, "format") =>
              ret.cfg.ReportConfig.Format = OutputFormatJSON

\* Parse accepted a document with no "report" key at all.
C6_Witness ==
    /\ pc = "Parse"
    /\ ret.err = NoError
    /\ ~Has(doc.order, "report")
    /\ Len(ret.cfg.Targets) = 1

----------------------------------------------------------------------------
(* The codecs and the filters. *)

\* the rank the specification gives each severity name
RankOf ==
    (S_info :> -3) @@ (S_low :> -2) @@ (S_medium :> -1) @@ (S_high :> 0) @@
    (S_critical :> 1)

\* re-encoding: the names the table gives for a value
NamesOf(v) == { n \in DOMAIN severityNames : severityNames[n] = v }

\* C7: severity decoding succeeds exactly on critical, high, medium, low,
\* info, gives them the ranks 1, 0, -1, -2, -3 (five distinct values in the
\* order Info < Low < Medium < High < Critical), so that the value decodes
\* back to the one name it came from, and fails on every other token, case
\* variants and the empty string included, with InvalidSeverity carrying
\* the token.
C7_SeverityDecoding ==
    dec.kind = "severity" =>
        /\ (dec.err = NoError) <=> (tok \in SeverityNameSet)
        /\ dec.err = NoError =>
              /\ dec.val = RankOf[tok]
              /\ NamesOf(dec.val) = {tok}
        /\ dec.err # NoError =>
              /\ dec.err = [kind |-> "ErrInvalidSeverity", detail |-> tok, wrap |-> ""]
              /\ dec.val = 0

\* the token "Critical" was turned down, and is carried by the error
C7_Witness ==
    /\ dec.kind = "severity"
    /\ tok = <<"C","r","i","t","i","c","a","l">>
    /\ dec.err.kind = "ErrInvalidSeverity"
    /\ dec.err.detail = tok

\* C8: every upper/lower-case variant of "json" decodes to the JSON format,
\* and every other token fails with InvalidOutputFormat carrying the token
\* as it was written.
C8_OutputFormatDecoding ==
    dec.kind = "format" =>
        /\ CaseVariantOfJson(tok) => dec.err = NoError /\ dec.val = OutputFormatJSON
        /\ ~CaseVariantOfJson(tok) =>
              /\ dec.err = [kind |-> "ErrInvalidOutputFormat", detail |-> tok, wrap |-> ""]
              /\ dec.val = 0

\* the token "JsOn" was decoded to the JSON format
C8_Witness ==
    /\ dec.kind = "format"
    /\ tok = <<"J","s","O","n">>
    /\ dec.err = NoError
    /\ dec.val = OutputFormatJSON

\* the severities from lowest to highest
SeverityOrder ==
    <<SeverityInfo, SeverityLow, SeverityMedium, SeverityHigh, SeverityCritical>>

Position(v) == CHOOSE i \in DOMAIN SeverityOrder : SeverityOrder[i] = v

\* C10: a finding of severity f is reportable under the minimum min exactly
\* when f is not below min in the order Info < Low < Medium < High <
\* Critical; under the minimum High a Medium finding is not reportable and
\* a Critical one is.
C10_SeverityFilter ==
    verdict.set =>
        /\ verdict.reportable <=> Position(finding.Severity) >= Position(verdict.min)
        /\ (verdict.min = SeverityHigh /\ finding.Severity = SeverityMedium)
              => ~verdict.reportable
        /\ (verdict.min = SeverityHigh /\ finding.Severity = SeverityCritical)
              => verdict.reportable

\* a Medium finding was held back under the decoded minimum "high"
C10_Witness ==
    /\ verdict.set
    /\ dec.kind = "severity"
    /\ tok = S_high
    /\ finding.Severity = SeverityMedium
    /\ ~verdict.reportable

MatchFields == {"Target", "Resource", "Fingerprint"}

\* a rule matches a finding: every field the rule sets equals the finding's
Matches(rule, f) == \A k \in MatchFields : rule[k] # <<>> => rule[k] = f[k]

WithoutSummaries(rules) ==
    [i \in DOMAIN rules |-> [rules[i] EXCEPT !.Summary = <<>>, !.Description = <<>>]]

\* C9: the finding is suppressed exactly when some rule of the list matches
\* it, the empty fields of a rule matching anything and the others by exact,
\* case-sensitive comparison; a rule with the three fields empty matches
\* every finding; summary and description have no effect; and the rule
\* attributed is the first that matches.
C9_ExclusionMatcher ==
    verdict.set =>
        /\ verdict.suppressed <=> \E i \in DOMAIN exclusions : Matches(exclusions[i], finding)
        /\ verdict.suppressed =>
              /\ verdict.rule \in DOMAIN exclusions
              /\ Matches(exclusions[verdict.rule], finding)
              /\ \A j \in 1..(verdict.rule - 1) : ~Matches(exclusions[j], finding)
        /\ ~verdict.suppressed => verdict.rule = 0
        /\ (\E i \in DOMAIN exclusions :
               \A k \in MatchFields : exclusions[i][k] = <<>>) => verdict.suppressed
        /\ isExcluded(finding, WithoutSummaries(exclusions)).suppressed = verdict.suppressed
        /\ isExcluded(finding, WithoutSummaries(exclusions)).rule = verdict.rule

\* the finding of target "a" passed a first rule for target "A" and was
\* suppressed by the second rule, which names target "a" and nothing else
C9_Witness ==
    /\ verdict.set
    /\ Len(exclusions) = MaxExclusions
    /\ exclusions[1].Target = <<"A">>
    /\ exclusions[1].Resource = <<>>
    /\ exclusions[1].Fingerprint = <<>>
    /\ finding.Target = <<"a">>
    /\ finding.Resource = <<"r">>
    /\ verdict.suppressed
    /\ verdict.rule = MaxExclusions

====
